---- MODULE Spec2Model ----
(***************************************************************************)
(* MonteCarloInvestmentSimulator (monte_carlo_simulator_v2.py) as a state  *)
(* machine: one simulator instance, one run_simulation frame that          *)
(* advances month by month, and the reducers get_percentiles,              *)
(* get_statistics, print_summary and plot_results, which may be called at  *)
(* any point, also while a run is in progress.  Spec starts from the       *)
(* instances with at least one trial, SpecAnyTrials from those and the     *)
(* instance with none.  CliSpec is main() of simple_cli.py, one step per   *)
(* line typed at a prompt.                                                 *)
(*                                                                         *)
(* Numbers.  Every input of the model is an integer, and the sampled       *)
(* monthly returns are whole numbers (-2 is a return of -200%), so that    *)
(* every portfolio value is an integer that float64 holds exactly.         *)
(* Statistics that are not whole numbers are kept exact:                   *)
(*   - a percentile or the median is given multiplied by 100;              *)
(*   - the mean and the success rates are fractions [num, den];            *)
(*   - the standard deviation is given as the fraction std^2, whose        *)
(*     numerator is kept in two limbs (see SumSq).                         *)
(***************************************************************************)
EXTENDS Integers, Sequences, FiniteSets

VARIABLES
    self,                \* the fields __init__ sets, simulation_results apart
    simulation_results,  \* self.simulation_results: None or a matrix
    pc,                  \* position of the run_simulation frame
    returns,             \* run_simulation's local `returns`
    portfolio_values,    \* run_simulation's local `portfolio_values`
    month,               \* run_simulation's loop variable
    results_returns,     \* history: the returns behind simulation_results
    rerun,               \* history: the latest run_simulation call began
                         \* with a matrix already stored
    write_log,           \* history: the columns the latest run has assigned
                         \* in the matrix it builds, in order of assignment
    result,              \* outcome of the call that completed last
    latest,              \* history: what the run_simulation call that
                         \* completed last returned (None before any has)
    cli                  \* simple_cli.py: main()'s position, its locals and
                         \* the simulator calls it has made

vars == <<self, simulation_results, pc, returns, portfolio_values, month,
          results_returns, rerun, write_log, result, latest, cli>>

-----------------------------------------------------------------------------
(* Bounds and input samples *)

MaxTrials == 2

ShockMonth == 6

InitialBalances == {0, 1}

MonthlyContributions == {0, 1000}

AnnualReturns == {-1, 0}

AnnualVolatilities == {-1, 0, 1}

YearCounts == {-1, 0, 1}

TailSeverities == {"standard", "extreme"}

\* whole-number distances from loc that a draw with a positive scale is
\* sampled at; the fat-tailed samples reach further out
NormalDeviations == {-1, 1}

StandardTailDeviations == {-2, 2}

ExtremeTailDeviations == {-3, 3}

DefaultPercentiles == <<10, 20, 50, 80, 90>>

\* None is a matrix no run can produce (its one row has index -1 only), so
\* that it differs from the matrix without rows that a run of no trials stores
None == << [m \in {-1} |-> 0] >>

-----------------------------------------------------------------------------
(* __init__ *)

MonthsPerYear == 12

\* (1 + annual_return) ** (1/12) - 1, on the two inputs where it is exact
MonthlyReturnOf(annual_return) ==
    CASE annual_return = 0 -> 0
      [] annual_return = -1 -> -1

DegreesOfFreedomOf(tail_severity) ==
    IF tail_severity = "extreme" THEN 3 ELSE 5

\* monthly_volatility is annual_volatility / sqrt(12); the field holds it
\* multiplied by sqrt(12), which keeps its sign and its being zero.
NewSimulator(initial_balance, monthly_contribution, annual_return, annual_volatility, years, n_simulations, fat_tails, tail_severity) ==
    [initial_balance      |-> initial_balance,
     monthly_contribution |-> monthly_contribution,
     annual_return        |-> annual_return,
     annual_volatility    |-> annual_volatility,
     years                |-> years,
     n_simulations        |-> n_simulations,
     fat_tails            |-> fat_tails,
     tail_severity        |-> tail_severity,
     months               |-> years * MonthsPerYear,
     monthly_return       |-> MonthlyReturnOf(annual_return),
     monthly_volatility   |-> annual_volatility,
     degrees_of_freedom   |-> DegreesOfFreedomOf(tail_severity)]

Simulators ==
    { NewSimulator(ib, mc, ar, av, y, n, ft, ts) :
        ib \in InitialBalances, mc \in MonthlyContributions,
        ar \in AnnualReturns, av \in AnnualVolatilities, y \in YearCounts,
        n \in 1..MaxTrials, ft \in BOOLEAN, ts \in TailSeverities }

-----------------------------------------------------------------------------
(* generate_returns *)

Sign(x) == IF x > 0 THEN 1 ELSE IF x < 0 THEN -1 ELSE 0

\* sign of t_scale = monthly_volatility * sqrt((df - 2) / df); sqrt of a
\* negative number is nan, which scipy rejects like a negative scale
TScaleSign(s) ==
    IF s.degrees_of_freedom - 2 < 0 THEN -1
    ELSE IF s.degrees_of_freedom - 2 = 0 THEN 0
    ELSE Sign(s.monthly_volatility)

ScaleSign(s) == IF s.fat_tails THEN TScaleSign(s) ELSE Sign(s.monthly_volatility)

\* numpy and scipy raise ValueError on a negative scale or a negative size
GenerateRaises(s) == ScaleSign(s) < 0 \/ s.months < 0

\* one sampled row: a flat month-to-month path with one shock month
ShockRow(s, r) ==
    [m \in 0..(s.months - 1) |-> IF m = ShockMonth THEN r ELSE s.monthly_return]

ConstantRow(s, r) == [m \in 0..(s.months - 1) |-> r]

\* the draws sampled for a positive scale: loc plus a deviation
SampledReturns(s) ==
    { s.monthly_return + d :
        d \in IF ~s.fat_tails THEN NormalDeviations
              ELSE IF s.degrees_of_freedom = 3 THEN ExtremeTailDeviations
              ELSE StandardTailDeviations }

\* the return matrices generate_returns may produce: with a zero scale both
\* distributions return loc everywhere; with a positive scale any real
\* number may be drawn, of which the model samples the ShockRows
ReturnMatrices(s) ==
    IF ScaleSign(s) = 0
    THEN { [t \in 1..s.n_simulations |-> ConstantRow(s, s.monthly_return)] }
    ELSE [1..s.n_simulations -> { ShockRow(s, r) : r \in SampledReturns(s) }]

-----------------------------------------------------------------------------
(* run_simulation *)

\* a variant that leaves column 0 as np.zeros made it
InitialPortfolioZeros(s) ==
    [t \in 1..s.n_simulations |-> [m \in 0..s.months |-> 0]]

\* np.zeros((n_simulations, months + 1)); portfolio_values[:, 0] = initial_balance
InitialPortfolio(s) ==
    [t \in 1..s.n_simulations |->
        [m \in 0..s.months |-> IF m = 0 THEN s.initial_balance ELSE 0]]

\* a variant that applies the return before adding the contribution
CompoundReturnFirst(prev_balance, monthly_contribution, ret) ==
    prev_balance * (1 + ret) + monthly_contribution

\* a variant that floors the balance at zero
CompoundFloored(prev_balance, monthly_contribution, ret) ==
    LET x == (prev_balance + monthly_contribution) * (1 + ret)
    IN  IF x < 0 THEN 0 ELSE x

\* (prev_balance + self.monthly_contribution) * (1 + returns[:, month])
Compound(prev_balance, monthly_contribution, ret) ==
    (prev_balance + monthly_contribution) * (1 + ret)

\* a variant that assigns the column it has just read
AssignedColumnSame(mth) == mth

\* the column a loop iteration assigns: portfolio_values[:, month + 1]
AssignedColumn(mth) == mth + 1

\* portfolio_values[:, month + 1] = ... for every trial row at once
WriteColumn(pv, s, rets, mth) ==
    [t \in 1..s.n_simulations |->
        [pv[t] EXCEPT ![AssignedColumn(mth)] =
            Compound(pv[t][mth], s.monthly_contribution, rets[t][mth])]]

\* a variant that stops one month early, as range(self.months - 1) would
LoopDoneEarly(mth, months) == mth >= months - 1

\* for month in range(self.months)
LoopDone(mth, months) == mth >= months

RunStart ==
    /\ pc = "idle"
    /\ IF GenerateRaises(self)
       THEN /\ result' = [op |-> "run_simulation", status |-> "ValueError",
                          matrix |-> None]
            /\ UNCHANGED <<pc, returns, portfolio_values, month, write_log>>
       ELSE /\ \E rets \in ReturnMatrices(self) : returns' = rets
            /\ portfolio_values' = InitialPortfolio(self)
            /\ write_log' = <<0>>
            /\ month' = 0
            /\ pc' = "loop"
            /\ UNCHANGED result
    /\ rerun' = (simulation_results # None)
    /\ UNCHANGED <<self, simulation_results, results_returns, latest, cli>>

RunMonth ==
    /\ pc = "loop"
    /\ ~LoopDone(month, self.months)
    /\ portfolio_values' = WriteColumn(portfolio_values, self, returns, month)
    /\ write_log' = Append(write_log, AssignedColumn(month))
    /\ month' = month + 1
    /\ UNCHANGED <<self, simulation_results, pc, returns, results_returns,
                   rerun, result, latest, cli>>

RunFinish ==
    /\ pc = "loop"
    /\ LoopDone(month, self.months)
    /\ simulation_results' = portfolio_values
    /\ results_returns' = returns
    /\ result' = [op |-> "run_simulation", status |-> "ok",
                  matrix |-> portfolio_values]
    /\ pc' = "idle"
    /\ returns' = None
    /\ portfolio_values' = None
    /\ month' = 0
    /\ latest' = portfolio_values
    /\ UNCHANGED <<self, rerun, write_log, cli>>

-----------------------------------------------------------------------------
(* numpy reductions *)

RECURSIVE Insert(_, _)
Insert(x, sorted) ==
    IF sorted = <<>> THEN <<x>>
    ELSE IF x <= Head(sorted) THEN <<x>> \o sorted
    ELSE <<Head(sorted)>> \o Insert(x, Tail(sorted))

RECURSIVE SortAscending(_)
SortAscending(xs) ==
    IF xs = <<>> THEN <<>> ELSE Insert(Head(xs), SortAscending(Tail(xs)))

\* a variant that indexes the values in trial order
Unordered(xs) == xs

\* what np.percentile and np.median order the values into before indexing
Ordered(xs) == SortAscending(xs)

RECURSIVE Sum(_)
Sum(xs) == IF xs = <<>> THEN 0 ELSE Head(xs) + Sum(Tail(xs))

Abs(x) == IF x < 0 THEN -x ELSE x

\* np.percentile(xs, p), linear interpolation, times 100, where a is
\* Ordered(xs): the virtual index is (n - 1) * p / 100, and the value lies
\* between its two neighbours
Interpolate(a, p) ==
    LET n    == Len(a)
        pos  == (n - 1) * p
        lo   == pos \div 100
        frac == pos % 100
        hi   == IF lo + 1 < n THEN lo + 1 ELSE lo
    IN  100 * a[lo + 1] + (a[hi + 1] - a[lo + 1]) * frac

\* np.median(xs) times 100, where a is Ordered(xs): the mean of the middle
\* value(s)
Middle(a) ==
    LET n == Len(a)
    IN  50 * (a[((n - 1) \div 2) + 1] + a[(n \div 2) + 1])

\* np.mean(xs) as a fraction
Mean(xs) == [num |-> Sum(xs), den |-> Len(xs)]

\* sum of d * d over ds, as hi * 10^6 + lo (a square alone may pass 2^31)
RECURSIVE SumSq(_)
SumSq(ds) ==
    IF ds = <<>> THEN [hi |-> 0, lo |-> 0]
    ELSE LET q    == Abs(Head(ds)) \div 1000
             r    == Abs(Head(ds)) % 1000
             rest == SumSq(Tail(ds))
         IN  [hi |-> rest.hi + q * q,
              lo |-> rest.lo + 2000 * q * r + r * r]

\* np.std(xs) squared, as a fraction: the mean of (x - mean)^2 is
\* sum((n*x - sum)^2) / n^3
StdSquared(xs) ==
    LET n == Len(xs)
        s == Sum(xs)
    IN  [num |-> SumSq([i \in 1..n |-> n * xs[i] - s]), den |-> n * n * n]

Min(xs) == CHOOSE x \in {xs[i] : i \in 1..Len(xs)} :
               \A i \in 1..Len(xs) : x <= xs[i]

Max(xs) == CHOOSE x \in {xs[i] : i \in 1..Len(xs)} :
               \A i \in 1..Len(xs) : x >= xs[i]

\* np.mean(condition) * 100 as a fraction, where hits are the indices at
\* which the condition holds
Rate(xs, hits) == [num |-> 100 * Cardinality(hits), den |-> Len(xs)]

-----------------------------------------------------------------------------
(* get_percentiles, get_statistics, print_summary, plot_results *)

\* self.simulation_results[:, m]
Column(matrix, m) == [t \in 1..Len(matrix) |-> matrix[t][m]]

\* index of the last column, as [:, -1] resolves it
LastColumn(matrix) ==
    CHOOSE m \in DOMAIN matrix[1] : \A k \in DOMAIN matrix[1] : k <= m

\* a variant without the guard
MustRunFirstSkipped(matrix) == FALSE

\* if self.simulation_results is None: raise ValueError("Must run simulation first")
MustRunFirst(matrix) == matrix = None

\* a variant in which run_simulation publishes its working matrix before the
\* loop, so that a reducer called during a run reads the matrix being filled
ReadWorkingMatrix ==
    IF pc = "loop" THEN portfolio_values ELSE simulation_results

\* the matrix a reducer reads: self.simulation_results
ReadResults == simulation_results

\* percentile_data: for each level p, np.percentile(matrix, p, axis=0)
PercentileData(matrix, percentiles) ==
    LET ordered == [m \in DOMAIN matrix[1] |-> Ordered(Column(matrix, m))]
    IN  [p \in {percentiles[i] : i \in 1..Len(percentiles)} |->
            [m \in DOMAIN matrix[1] |-> Interpolate(ordered[m], p)]]

\* a variant that multiplies by the years instead of the months
TotalContributionsByYears(s) ==
    s.initial_balance + (s.monthly_contribution * s.years)

TotalContributions(s) ==
    s.initial_balance + (s.monthly_contribution * s.months)

IsPositive(v) == v > 0

\* a variant that halves the threshold instead of doubling it
Halved(total_contributions) == total_contributions \div 2

\* total_contributions * 2
Doubled(total_contributions) == total_contributions * 2

Statistics(s, matrix) ==
    LET final_values == Column(matrix, LastColumn(matrix))
        ordered == Ordered(final_values)
        total_contributions == TotalContributions(s)
        trials == 1..Len(final_values)
    IN  [median_final |-> Middle(ordered),
         mean_final   |-> Mean(final_values),
         std_final    |-> StdSquared(final_values),
         p10_final    |-> Interpolate(ordered, 10),
         p20_final    |-> Interpolate(ordered, 20),
         p80_final    |-> Interpolate(ordered, 80),
         p90_final    |-> Interpolate(ordered, 90),
         min_final    |-> Min(final_values),
         max_final    |-> Max(final_values),
         total_contributions |-> total_contributions,
         success_rate_positive |->
             Rate(final_values, {i \in trials : IsPositive(final_values[i])}),
         success_rate_beat_contributions |->
             Rate(final_values,
                  {i \in trials : final_values[i] > total_contributions}),
         success_rate_2x |->
             Rate(final_values,
                  {i \in trials :
                      final_values[i] > Doubled(total_contributions)})]

\* what each reducer hands back for the matrix it read
get_percentiles(s, matrix, percentiles) == PercentileData(matrix, percentiles)

get_statistics(s, matrix) == Statistics(s, matrix)

\* prints fields of get_statistics() and returns None
print_summary(s, matrix) == [printed |-> get_statistics(s, matrix)]

\* draws the bands of get_percentiles([10, 20, 50, 80, 90]) and a text box
\* from get_statistics()
plot_results(s, matrix) ==
    LET stats == get_statistics(s, matrix)
    IN  [bands |-> get_percentiles(s, matrix, <<10, 20, 50, 80, 90>>),
         text  |-> [median_final |-> stats.median_final,
                    total_contributions |-> stats.total_contributions,
                    success_rate_positive |-> stats.success_rate_positive]]

Reducers == {"get_percentiles", "get_statistics", "print_summary", "plot_results"}

\* np.random.choice(self.n_simulations, size=30, replace=False)
SamplePaths == 30

\* how a call that reads the matrix ends: ValueError from the guard,
\* TypeError where Python would index None, else normally
Status(matrix) ==
    IF MustRunFirst(matrix) THEN "ValueError"
    ELSE IF matrix = None THEN "TypeError"
    ELSE "ok"

\* np.percentile across the rows of a matrix without rows gives nan in some
\* numpy releases and raises in others
PercentileOutcomes(matrix) ==
    IF Len(matrix) = 0 THEN {"ok", "numpy error"} ELSE {"ok"}

\* np.min of an empty array raises ValueError (zero-size array to reduction
\* operation minimum which has no identity), if np.percentile has not raised
\* before it
StatisticsOutcomes(matrix) ==
    IF Len(matrix) = 0
    THEN (PercentileOutcomes(matrix) \ {"ok"}) \cup {"ValueError: zero-size array"}
    ELSE {"ok"}

\* np.random.choice raises ValueError when asked for more rows than there
\* are, without replacement
PlotOutcomes(s, matrix, show_sample_paths) ==
    (PercentileOutcomes(matrix) \ {"ok"}) \cup
        (IF show_sample_paths /\ s.n_simulations < SamplePaths
         THEN {"ValueError: larger sample than population"}
         ELSE StatisticsOutcomes(matrix))

\* the ways a call of op can end
Outcomes(op, s, matrix, show_sample_paths) ==
    IF Status(matrix) # "ok" THEN {Status(matrix)}
    ELSE CASE op = "get_percentiles" -> PercentileOutcomes(matrix)
           [] op = "plot_results" -> PlotOutcomes(s, matrix, show_sample_paths)
           [] OTHER -> StatisticsOutcomes(matrix)

\* the record of a completed reducer call: the matrix it read and reduced
\* (None when it raised).  What it returned is a function of that matrix:
\* see Returned.
Call(op, status, matrix) ==
    [op |-> op, status |-> status,
     matrix |-> IF status = "ok" THEN matrix ELSE None]

UnchangedByReducer ==
    UNCHANGED <<self, simulation_results, pc, returns, portfolio_values, month,
                results_returns, rerun, write_log, latest, cli>>

GetPercentiles ==
    /\ \E status \in Outcomes("get_percentiles", self, ReadResults, FALSE) :
          result' = Call("get_percentiles", status, ReadResults)
    /\ UnchangedByReducer

GetStatistics ==
    /\ \E status \in Outcomes("get_statistics", self, ReadResults, FALSE) :
          result' = Call("get_statistics", status, ReadResults)
    /\ UnchangedByReducer

PrintSummary ==
    /\ \E status \in Outcomes("print_summary", self, ReadResults, FALSE) :
          result' = Call("print_summary", status, ReadResults)
    /\ UnchangedByReducer

PlotResults ==
    /\ \E show_sample_paths \in BOOLEAN :
       \E status \in Outcomes("plot_results", self, ReadResults,
                              show_sample_paths) :
          result' = Call("plot_results", status, ReadResults)
    /\ UnchangedByReducer

\* the value the last completed reducer call returned (or printed, or drew)
ReturnedPercentiles == get_percentiles(self, result.matrix, DefaultPercentiles)

ReturnedStatistics == get_statistics(self, result.matrix)

-----------------------------------------------------------------------------
(* simple_cli.py, first part: the values of main()'s locals *)

\* A Python number: kind "num" with v its value in thousandths, or "nan", or
\* "inf"; "unset" is a local not assigned yet.
Num(x) == [kind |-> "num", v |-> 1000 * x]

NaN == [kind |-> "nan", v |-> 0]

Infinity == [kind |-> "inf", v |-> 0]

Unset == [kind |-> "unset", v |-> 0]

Locals ==
    [mode |-> Unset, initial_balance |-> Unset, monthly_contribution |-> Unset,
     annual_return |-> Unset, annual_volatility |-> Unset, years |-> Unset,
     fat_tails |-> FALSE, tail_severity |-> "standard", filename |-> ""]

NoNumber == [kind |-> "None", v |-> 0]

ValueError == [kind |-> "ValueError", v |-> 0]

OverflowError == [kind |-> "OverflowError", v |-> 0]

Reprompt == [kind |-> "reprompt", v |-> 0]

\* what the helper called last returned, with the limits it was called with
NoReturn ==
    [helper |-> "none", value |-> NoNumber, default |-> NoNumber,
     minimum |-> NoNumber, maximum |-> NoNumber]

\* the module is imported or run by nobody: main() is not executing
CliNotStarted ==
    [pc |-> "off", locals |-> Locals, calls |-> <<>>, returned |-> NoReturn]

\* the lines a user may type at a numeric prompt, already stripped
TypedNumbers == {"", "abc", "nan", "inf", "-1", "0", "1.5", "30", "61"}

\* the lines a user may type at a menu
TypedChoices == {"", "abc", "1.5", "0", "1", "2", "3", "4", "5"}

\* the lines a user may type at a yes/no prompt, stripped and lower-cased
TypedAnswers == {"", "y", "n"}

\* float(text) on the lines above
Float(text) ==
    CASE text = "nan" -> NaN
      [] text = "inf" -> Infinity
      [] text = "-1" -> Num(-1)
      [] text = "0" -> Num(0)
      [] text = "1" -> Num(1)
      [] text = "1.5" -> [kind |-> "num", v |-> 1500]
      [] text = "2" -> Num(2)
      [] text = "3" -> Num(3)
      [] text = "4" -> Num(4)
      [] text = "5" -> Num(5)
      [] text = "30" -> Num(30)
      [] text = "61" -> Num(61)
      [] OTHER -> ValueError

\* int(text): a decimal integer literal only
IntOfText(text) ==
    IF text \in {"nan", "inf", "1.5"} THEN ValueError ELSE Float(text)

\* Python's a < b on floats: every comparison with nan is False
Less(a, b) ==
    CASE a.kind = "nan" \/ b.kind = "nan" -> FALSE
      [] a.kind = "inf" -> FALSE
      [] b.kind = "inf" -> TRUE
      [] OTHER -> a.v < b.v

\* int(value) on a float: truncation toward zero
IntOfFloat(value) ==
    CASE value.kind = "nan" -> ValueError
      [] value.kind = "inf" -> OverflowError
      [] value.v >= 0 -> [kind |-> "num", v |-> 1000 * (value.v \div 1000)]
      [] OTHER -> [kind |-> "num", v |-> 0 - 1000 * ((0 - value.v) \div 1000)]

\* value / 100 (the typed lines are multiples of a tenth, so it is exact here)
Percent(value) ==
    IF value.kind = "num" THEN [kind |-> "num", v |-> value.v \div 100]
    ELSE value

\* one pass of get_number's loop on one typed line: the value returned, or
\* Reprompt when the loop goes round again
get_number(text, default, minimum, maximum) ==
    IF default # NoNumber /\ text = "" THEN default
    ELSE LET value == Float(text) IN
         IF value = ValueError THEN Reprompt
         ELSE IF minimum # NoNumber /\ Less(value, minimum) THEN Reprompt
         ELSE IF maximum # NoNumber /\ Less(maximum, value) THEN Reprompt
         ELSE value

\* one pass of get_choice's loop on one typed line, len(options) = n
get_choice(text, n) ==
    LET choice == IntOfText(text) IN
    IF choice = ValueError THEN Reprompt
    ELSE IF ~Less(choice, Num(1)) /\ ~Less(Num(n), choice)
         THEN [kind |-> "num", v |-> choice.v - 1000]
         ELSE Reprompt

Returned(helper, value, default, minimum, maximum) ==
    [helper |-> helper, value |-> value, default |-> default,
     minimum |-> minimum, maximum |-> maximum]

Presets ==
    << [initial_balance |-> Num(5000), monthly_contribution |-> Num(500),
        annual_return |-> [kind |-> "num", v |-> 90],
        annual_volatility |-> [kind |-> "num", v |-> 200],
        years |-> Num(40), fat_tails |-> TRUE, tail_severity |-> "standard"],
       [initial_balance |-> Num(100000), monthly_contribution |-> Num(1500),
        annual_return |-> [kind |-> "num", v |-> 80],
        annual_volatility |-> [kind |-> "num", v |-> 160],
        years |-> Num(25), fat_tails |-> TRUE, tail_severity |-> "standard"],
       [initial_balance |-> Num(500000), monthly_contribution |-> Num(2000),
        annual_return |-> [kind |-> "num", v |-> 60],
        annual_volatility |-> [kind |-> "num", v |-> 120],
        years |-> Num(10), fat_tails |-> TRUE, tail_severity |-> "standard"],
       [initial_balance |-> Num(25000), monthly_contribution |-> Num(1000),
        annual_return |-> [kind |-> "num", v |-> 100],
        annual_volatility |-> [kind |-> "num", v |-> 220],
        years |-> Num(30), fat_tails |-> TRUE, tail_severity |-> "extreme"] >>

\* lines 204-207: the default name, and the .png suffix
SavedAs(text) ==
    CASE text = "" -> "simulation_result.png"
      [] text = "chart" -> "chart.png"
      [] OTHER -> text

TypedFilenames == {"", "chart", "chart.png"}

\* stats.t.rvs rejects a scale that is not >= 0; np.random.normal accepts nan
RunRaises(locals) ==
    locals.fat_tails /\ locals.annual_volatility.kind = "nan"

SimulatorUntouched ==
    UNCHANGED <<self, simulation_results, pc, returns, portfolio_values,
                month, results_returns, rerun, write_log, result, latest>>

\* main() is entered: nothing chosen yet
CliMain ==
    [pc |-> "mode", locals |-> Locals, calls |-> <<>>, returned |-> NoReturn]

\* line 62
SelectMode ==
    /\ cli.pc = "mode"
    /\ \E text \in TypedChoices :
          LET mode == get_choice(text, 3) IN
          IF mode = Reprompt THEN cli' = cli
          ELSE cli' = [cli EXCEPT
                   !.locals.mode = mode,
                   !.returned = Returned("get_choice", mode, NoNumber,
                                         Num(1), Num(3)),
                   !.pc = IF mode = Num(2) THEN "preset"
                          ELSE "initial_balance"]
    /\ SimulatorUntouched

\* lines 68 and 86
AskInitialBalance ==
    /\ cli.pc = "initial_balance"
    /\ \E text \in TypedNumbers :
          LET got == get_number(text, Num(10000), Num(0), NoNumber) IN
          IF got = Reprompt THEN cli' = cli
          ELSE cli' = [cli EXCEPT
                   !.locals.initial_balance = got,
                   !.returned = Returned("get_number", got, Num(10000),
                                         Num(0), NoNumber),
                   !.pc = "monthly_contribution"]
    /\ SimulatorUntouched

\* lines 69 and 87
AskMonthlyContribution ==
    /\ cli.pc = "monthly_contribution"
    /\ \E text \in TypedNumbers :
          LET got == get_number(text, Num(500), Num(0), NoNumber) IN
          IF got = Reprompt THEN cli' = cli
          ELSE cli' = [cli EXCEPT
                   !.locals.monthly_contribution = got,
                   !.returned = Returned("get_number", got, Num(500),
                                         Num(0), NoNumber),
                   !.pc = IF cli.locals.mode = Num(0) THEN "years"
                          ELSE "annual_return"]
    /\ SimulatorUntouched

\* line 88
AskAnnualReturn ==
    /\ cli.pc = "annual_return"
    /\ \E text \in TypedNumbers :
          LET got == get_number(text, Num(8), Num(0), Num(20)) IN
          IF got = Reprompt THEN cli' = cli
          ELSE cli' = [cli EXCEPT
                   !.locals.annual_return = Percent(got),
                   !.returned = Returned("get_number", got, Num(8),
                                         Num(0), Num(20)),
                   !.pc = "annual_volatility"]
    /\ SimulatorUntouched

\* line 89
AskAnnualVolatility ==
    /\ cli.pc = "annual_volatility"
    /\ \E text \in TypedNumbers :
          LET got == get_number(text, Num(18), Num(0), Num(50)) IN
          IF got = Reprompt THEN cli' = cli
          ELSE cli' = [cli EXCEPT
                   !.locals.annual_volatility = Percent(got),
                   !.returned = Returned("get_number", got, Num(18),
                                         Num(0), Num(50)),
                   !.pc = "years"]
    /\ SimulatorUntouched

\* lines 70-76 and 90: int() of a nan leaves main() through the handler of
\* line 229
AskYears ==
    /\ cli.pc = "years"
    /\ \E text \in TypedNumbers :
          LET got == get_number(text, Num(30), Num(1), Num(60))
              years == IntOfFloat(got)
              asked == [cli EXCEPT
                   !.returned = Returned("get_number", got, Num(30),
                                         Num(1), Num(60))]
          IN
          IF got = Reprompt THEN cli' = cli
          ELSE IF years \in {ValueError, OverflowError}
          THEN cli' = [asked EXCEPT !.pc = "error"]
          ELSE IF cli.locals.mode = Num(0)
          THEN cli' = [asked EXCEPT
                   !.locals.years = years,
                   !.locals.annual_return = [kind |-> "num", v |-> 80],
                   !.locals.annual_volatility = [kind |-> "num", v |-> 180],
                   !.locals.fat_tails = TRUE,
                   !.locals.tail_severity = "standard",
                   !.pc = "confirm"]
          ELSE cli' = [asked EXCEPT !.locals.years = years,
                                    !.pc = "fat_tails"]
    /\ SimulatorUntouched

\* lines 92-99
AskFatTails ==
    /\ cli.pc = "fat_tails"
    /\ \E text \in TypedChoices :
          LET use_fat_tails == get_choice(text, 2) IN
          IF use_fat_tails = Reprompt THEN cli' = cli
          ELSE cli' = [cli EXCEPT
                   !.locals.fat_tails = (use_fat_tails = Num(0)),
                   !.locals.tail_severity = "standard",
                   !.returned = Returned("get_choice", use_fat_tails,
                                         NoNumber, Num(1), Num(2)),
                   !.pc = IF use_fat_tails = Num(0) THEN "severity"
                          ELSE "confirm"]
    /\ SimulatorUntouched

\* lines 96-97
AskSeverity ==
    /\ cli.pc = "severity"
    /\ \E text \in TypedChoices :
          LET severity == get_choice(text, 2) IN
          IF severity = Reprompt THEN cli' = cli
          ELSE cli' = [cli EXCEPT
                   !.locals.tail_severity =
                       IF severity = Num(0) THEN "standard" ELSE "extreme",
                   !.returned = Returned("get_choice", severity, NoNumber,
                                         Num(1), Num(2)),
                   !.pc = "confirm"]
    /\ SimulatorUntouched

\* lines 143-152
SelectPreset ==
    /\ cli.pc = "preset"
    /\ \E text \in TypedChoices :
          LET preset_choice == get_choice(text, Len(Presets)) IN
          IF preset_choice = Reprompt THEN cli' = cli
          ELSE LET params == Presets[(preset_choice.v \div 1000) + 1] IN
               cli' = [cli EXCEPT
                   !.locals.initial_balance = params.initial_balance,
                   !.locals.monthly_contribution = params.monthly_contribution,
                   !.locals.annual_return = params.annual_return,
                   !.locals.annual_volatility = params.annual_volatility,
                   !.locals.years = params.years,
                   !.locals.fat_tails = params.fat_tails,
                   !.locals.tail_severity = params.tail_severity,
                   !.returned = Returned("get_choice", preset_choice,
                                         NoNumber, Num(1), Num(Len(Presets))),
                   !.pc = "confirm"]
    /\ SimulatorUntouched

\* lines 169-191: the confirmation, then the constructor, run_simulation and
\* print_summary in that order
ConfirmAndRun ==
    /\ cli.pc = "confirm"
    /\ \E confirm \in TypedAnswers :
          IF confirm = "n" THEN cli' = [cli EXCEPT !.pc = "cancelled"]
          ELSE IF RunRaises(cli.locals)
          THEN cli' = [cli EXCEPT !.calls = <<"__init__", "run_simulation">>,
                                  !.pc = "error"]
          ELSE cli' = [cli EXCEPT
                   !.calls = <<"__init__", "run_simulation", "print_summary">>,
                   !.pc = "show_chart"]
    /\ SimulatorUntouched

\* lines 195-198
ShowChart ==
    /\ cli.pc = "show_chart"
    /\ \E show_chart \in TypedAnswers :
          IF show_chart # "n"
          THEN cli' = [cli EXCEPT !.calls = Append(cli.calls, "plot_results"),
                                  !.pc = "save_chart"]
          ELSE cli' = [cli EXCEPT !.pc = "another"]
    /\ SimulatorUntouched

\* lines 201-202 and 212
SaveChart ==
    /\ cli.pc = "save_chart"
    /\ \E save_chart \in TypedAnswers :
          cli' = [cli EXCEPT !.pc = IF save_chart # "n" THEN "filename"
                                    ELSE "another"]
    /\ SimulatorUntouched

\* lines 203-212
Filename ==
    /\ cli.pc = "filename"
    /\ \E text \in TypedFilenames :
          cli' = [cli EXCEPT !.locals.filename = SavedAs(text),
                             !.pc = "another"]
    /\ SimulatorUntouched

\* lines 216-222
Another ==
    /\ cli.pc = "another"
    /\ \E another \in TypedAnswers :
          cli' = IF another = "y" THEN CliMain ELSE [cli EXCEPT !.pc = "done"]
    /\ SimulatorUntouched

-----------------------------------------------------------------------------
Init ==
    /\ self \in Simulators
    /\ simulation_results = None
    /\ pc = "idle"
    /\ returns = None
    /\ portfolio_values = None
    /\ month = 0
    /\ results_returns = None
    /\ rerun = FALSE
    /\ write_log = <<>>
    /\ result = [op |-> "__init__", status |-> "ok", matrix |-> None]
    /\ latest = None
    /\ cli = CliNotStarted

Next ==
    \/ RunStart
    \/ RunMonth
    \/ RunFinish
    \/ GetPercentiles
    \/ GetStatistics
    \/ PrintSummary
    \/ PlotResults

Spec == Init /\ [][Next]_vars

\* n_simulations = 0, which the constructor accepts as it accepts anything
ZeroTrialSimulators ==
    { NewSimulator(ib, mc, ar, av, y, 0, ft, ts) :
        ib \in InitialBalances, mc \in MonthlyContributions,
        ar \in AnnualReturns, av \in AnnualVolatilities, y \in YearCounts,
        ft \in BOOLEAN, ts \in TailSeverities }

\* as Init, the instance without trials included
InitAnyTrials ==
    /\ self \in Simulators \cup ZeroTrialSimulators
    /\ simulation_results = None
    /\ pc = "idle"
    /\ returns = None
    /\ portfolio_values = None
    /\ month = 0
    /\ results_returns = None
    /\ rerun = FALSE
    /\ write_log = <<>>
    /\ result = [op |-> "__init__", status |-> "ok", matrix |-> None]
    /\ latest = None
    /\ cli = CliNotStarted

SpecAnyTrials == InitAnyTrials /\ [][Next]_vars

\* python simple_cli.py: main() has been entered and no simulator exists yet
CliInit ==
    /\ self = None
    /\ simulation_results = None
    /\ pc = "idle"
    /\ returns = None
    /\ portfolio_values = None
    /\ month = 0
    /\ results_returns = None
    /\ rerun = FALSE
    /\ write_log = <<>>
    /\ result = [op |-> "__init__", status |-> "ok", matrix |-> None]
    /\ latest = None
    /\ cli = CliMain

CliNext ==
    \/ SelectMode
    \/ AskInitialBalance
    \/ AskMonthlyContribution
    \/ AskAnnualReturn
    \/ AskAnnualVolatility
    \/ AskYears
    \/ AskFatTails
    \/ AskSeverity
    \/ SelectPreset
    \/ ConfirmAndRun
    \/ ShowChart
    \/ SaveChart
    \/ Filename
    \/ Another

CliSpec == CliInit /\ [][CliNext]_vars

-----------------------------------------------------------------------------
(* Properties *)

HasResults == simulation_results # None

ReducerReturned == result.op \in Reducers /\ result.status = "ok"

RunReturned == result.op = "run_simulation" /\ result.status = "ok"

Trials == 1..self.n_simulations

\* C1: while no run_simulation call has completed (simulation_results is
\* None), a call of get_percentiles, get_statistics, print_summary or
\* plot_results ends in the "must run simulation first" ValueError and hands
\* back nothing.
C1_ReducerBeforeRunRaises ==
    (result.op \in Reducers /\ ~HasResults)
        => (result.status = "ValueError" /\ result.matrix = None)

\* plot_results, which goes through both reducers, was called while the first
\* run was in the middle of its loop, and raised
C1_Witness ==
    /\ result.op = "plot_results"
    /\ result.status = "ValueError"
    /\ ~HasResults
    /\ pc = "loop"
    /\ month > 0

\* C2: in the matrix run_simulation returns (and stores), every row t and
\* month m satisfy value[t][m+1] = (value[t][m] + monthly_contribution) *
\* (1 + return[t][m]) for the returns drawn by that run.
C2_RecurrenceFidelity ==
    RunReturned =>
        /\ simulation_results = result.matrix
        /\ \A t \in Trials : \A m \in 0..(self.months - 1) :
              result.matrix[t][m + 1] =
                  (result.matrix[t][m] + self.monthly_contribution)
                      * (1 + results_returns[t][m])

\* a run returned a matrix in which a nonzero return met a nonzero
\* contribution, where the order of adding and multiplying matters
C2_Witness ==
    /\ RunReturned
    /\ self.monthly_contribution > 0
    /\ \E t \in Trials : \E m \in 0..(self.months - 1) :
          /\ results_returns[t][m] \notin {0, -1}
          /\ result.matrix[t][m] # 0
          /\ result.matrix[t][m + 1] #
                 result.matrix[t][m] * (1 + results_returns[t][m])
                     + self.monthly_contribution

\* C3: column 0 of the trajectory matrix is initial_balance in every trial
\* row, in the matrix run_simulation returned and in the one stored for the
\* reducers, after the first run and after any later one.
C3_ColumnZeroIsInitialBalance ==
    /\ HasResults =>
          \A t \in Trials : simulation_results[t][0] = self.initial_balance
    /\ RunReturned =>
          \A t \in Trials : result.matrix[t][0] = self.initial_balance

\* a second run returned, with a nonzero initial balance and returns that
\* moved the later columns away from it
C3_Witness ==
    /\ RunReturned
    /\ rerun
    /\ self.initial_balance # 0
    /\ \E t \in Trials : result.matrix[t][self.months] # self.initial_balance

\* the parameters the specification calls valid
ValidParameters(s) ==
    /\ s.annual_volatility >= 0
    /\ s.years > 0
    /\ s.degrees_of_freedom > 2

\* C4: a simulator with an invalid parameter (negative annual_volatility,
\* years <= 0 or degrees_of_freedom <= 2) is rejected at construction, so
\* none ever enters run_simulation.
C4_InvalidNeverReachesRun ==
    (pc = "loop" \/ result.op = "run_simulation") => ValidParameters(self)

\* a <= b for fractions with positive denominators
FractionLeq(a, b) == a.num * b.den <= b.num * a.den

\* C5: with initial_balance >= 0 and monthly_contribution >= 0, the rates
\* get_statistics returns satisfy success_rate_positive >=
\* success_rate_beat_contributions >= success_rate_2x, whatever the final
\* values are.
C5_SuccessRatesOrdered ==
    ( /\ result.op = "get_statistics"
      /\ result.status = "ok"
      /\ self.initial_balance >= 0
      /\ self.monthly_contribution >= 0 )
        => LET stats == ReturnedStatistics
           IN  /\ FractionLeq(stats.success_rate_2x,
                              stats.success_rate_beat_contributions)
               /\ FractionLeq(stats.success_rate_beat_contributions,
                              stats.success_rate_positive)

\* get_statistics returned three different rates: some trial ended positive
\* without beating the contributions, another beat them without doubling them
C5_Witness ==
    /\ result.op = "get_statistics"
    /\ result.status = "ok"
    /\ LET stats == ReturnedStatistics
       IN  /\ stats.success_rate_2x.num
                 < stats.success_rate_beat_contributions.num
           /\ stats.success_rate_beat_contributions.num
                 < stats.success_rate_positive.num

\* C6: get_percentiles returns, for each of the levels 10, 20, 50, 80, 90,
\* a band of length months + 1 (indexed 0..months), and at every month the
\* bands are in the order p10 <= p20 <= p50 <= p80 <= p90.
C6_PercentilesMonotone ==
    (result.op = "get_percentiles" /\ result.status = "ok")
        => LET bands == ReturnedPercentiles
           IN  /\ DOMAIN bands = {10, 20, 50, 80, 90}
               /\ \A p \in DOMAIN bands : DOMAIN bands[p] = 0..self.months
               /\ \A m \in 0..self.months :
                     /\ bands[10][m] <= bands[20][m]
                     /\ bands[20][m] <= bands[50][m]
                     /\ bands[50][m] <= bands[80][m]
                     /\ bands[80][m] <= bands[90][m]

\* get_percentiles reduced a matrix whose trials differ at the last month,
\* the larger value in the earlier row, so that the bands there are strictly
\* apart
C6_Witness ==
    /\ result.op = "get_percentiles"
    /\ result.status = "ok"
    /\ self.n_simulations > 1
    /\ result.matrix[1][self.months] > result.matrix[2][self.months]
    /\ LET bands == ReturnedPercentiles
       IN  bands[10][self.months] < bands[90][self.months]

\* C7: total_contributions as get_statistics returns it is
\* initial_balance + monthly_contribution * years * 12, whatever the matrix
\* holds.
C7_TotalContributions ==
    (result.op = "get_statistics" /\ result.status = "ok")
        => ReturnedStatistics.total_contributions =
               self.initial_balance
                   + self.monthly_contribution * self.years * 12

\* get_statistics returned for a simulator with a nonzero balance, a nonzero
\* contribution and trials that ended differently
C7_Witness ==
    /\ result.op = "get_statistics"
    /\ result.status = "ok"
    /\ self.initial_balance = 1
    /\ self.monthly_contribution = 1000
    /\ self.years = 1
    /\ \E t, u \in Trials :
          result.matrix[t][self.months] # result.matrix[u][self.months]

\* the configuration of the specification's worked example
ExampleConfiguration ==
    /\ self.initial_balance = 0
    /\ self.monthly_contribution = 1000
    /\ self.annual_return = 0
    /\ self.annual_volatility = 0
    /\ self.years = 1
    /\ ~self.fat_tails

\* C8: with initial_balance 0, monthly_contribution 1000, annual_return 0,
\* annual_volatility 0, years 1 and fat_tails false, every trial row of the
\* matrix run_simulation produces ends at exactly 12000 in month 12, and
\* the standard deviation of the final values is zero.
C8_ExampleEndsAt12000 ==
    (ExampleConfiguration /\ HasResults)
        => /\ \A t \in Trials : simulation_results[t][12] = 12000
           /\ RunReturned =>
                 \A t \in Trials : result.matrix[t][12] = 12000
           /\ get_statistics(self, simulation_results).std_final.num
                  = [hi |-> 0, lo |-> 0]

\* the example ran with more than one trial and get_statistics was called
C8_Witness ==
    /\ ExampleConfiguration
    /\ self.n_simulations > 1
    /\ result.op = "get_statistics"
    /\ result.status = "ok"
    /\ ReturnedStatistics.min_final = 12000
    /\ ReturnedStatistics.max_final = 12000

\* C9: no floor.  Whenever (value[t][m] + monthly_contribution) *
\* (1 + return[t][m]) is negative, that negative number is what the matrix
\* holds at month m+1, and the next month is compounded from it; and
\* success_rate_positive counts exactly the trials whose final value is > 0,
\* so a trial that ends at or below zero is left out.
C9_NoFloor ==
    /\ HasResults =>
          \A t \in Trials : \A m \in 0..(self.months - 1) :
              LET product == (simulation_results[t][m]
                                 + self.monthly_contribution)
                             * (1 + results_returns[t][m])
              IN  product < 0 =>
                     /\ simulation_results[t][m + 1] = product
                     /\ simulation_results[t][m + 1] < 0
    /\ (result.op = "get_statistics" /\ result.status = "ok") =>
          ReturnedStatistics.success_rate_positive.num =
              100 * Cardinality({t \in Trials :
                                    result.matrix[t][self.months] > 0})

\* get_statistics reduced a matrix in which a return below -1 turned a
\* positive balance negative, the negative balance was carried through the
\* following months to a negative final value, and that trial is not counted
C9_Witness ==
    /\ result.op = "get_statistics"
    /\ result.status = "ok"
    /\ self.months > 1
    /\ \E t \in Trials : \E m \in 0..(self.months - 2) :
          /\ result.matrix[t][m] + self.monthly_contribution > 0
          /\ results_returns[t][m] < -1
          /\ result.matrix[t][m + 1] < 0
          /\ result.matrix[t][m + 2] < 0
          /\ result.matrix[t][self.months] < 0
    /\ ReturnedStatistics.success_rate_positive.num
           < 100 * self.n_simulations

\* C10: a reducer only ever reads the stored matrix, and the stored matrix
\* has every column 1..months of every row compounded from the column
\* before it: a run in progress is not visible to the reducers.
C10_FullBarrier ==
    ReducerReturned =>
        /\ HasResults
        /\ result.matrix = simulation_results
        /\ \A t \in Trials : \A m \in 0..(self.months - 1) :
              result.matrix[t][m + 1] =
                  (result.matrix[t][m] + self.monthly_contribution)
                      * (1 + results_returns[t][m])

\* a reducer returned while a later run was between two months of its loop,
\* with a working matrix that differs from the one the reducer read
C10_Witness ==
    /\ ReducerReturned
    /\ pc = "loop"
    /\ month > 0
    /\ month < self.months
    /\ portfolio_values # result.matrix
    /\ \E t \in Trials : portfolio_values[t][self.months] = 0
                            /\ result.matrix[t][self.months] # 0

\* the columns 0..last, each once, in increasing order
ColumnsInOrder(last) == [i \in 1..(last + 1) |-> i - 1]

\* a step in which one of the three reducers completed a call
ReducerStep ==
    /\ result' # result
    /\ result'.op \in {"get_percentiles", "get_statistics", "print_summary"}

\* C11: every cell of a trajectory matrix is assigned exactly once, by the
\* run that builds it, column by column in increasing month order (while the
\* loop is at month m the columns 0..m have been assigned once each, and a
\* stored matrix has had 0..months assigned once each); afterwards the
\* matrix is only read: a call of get_percentiles, get_statistics or
\* print_summary changes no cell of the stored matrix and no config field,
\* and the stored matrix changes only when a run stores the one it built.
C11_WrittenOnceThenOnlyRead ==
    /\ [](pc = "loop" => write_log = ColumnsInOrder(month))
    /\ []((pc = "idle" /\ HasResults) => write_log = ColumnsInOrder(self.months))
    /\ [][ReducerStep =>
             (simulation_results' = simulation_results /\ self' = self)]_vars
    /\ [][simulation_results' # simulation_results =>
             (pc = "loop" /\ pc' = "idle"
                 /\ simulation_results' = portfolio_values)]_vars

\* print_summary returned after a second run had stored a twelve-month
\* matrix that differs between trials
C11_Witness ==
    /\ result.op = "print_summary"
    /\ result.status = "ok"
    /\ rerun
    /\ pc = "idle"
    /\ self.months = 12
    /\ write_log = <<0, 1, 2, 3, 4, 5, 6, 7, 8, 9, 10, 11, 12>>
    /\ result.matrix = simulation_results
    /\ \E t, u \in Trials : simulation_results[t][12] # simulation_results[u][12]

-----------------------------------------------------------------------------
(* simple_cli.py *)

\* lo <= value <= hi as numbers; a missing limit does not constrain
WithinLimits(value, lo, hi) ==
    /\ value.kind \in {"num", "inf"}
    /\ lo # NoNumber => (value.kind = "inf" \/ value.v >= lo.v)
    /\ hi # NoNumber => (value.kind = "num" /\ value.v <= hi.v)

NonNegative(value) == WithinLimits(value, Num(0), NoNumber)

IsPrefix(s, t) == Len(s) <= Len(t) /\ s = SubSeq(t, 1, Len(s))

ConstructorCalled == Len(cli.calls) > 0

\* C12: get_number returns only the default or a typed number within
\* [minimum, maximum], get_choice returns only an index in 0..len(options)-1,
\* every configuration main() hands to the constructor has
\* initial_balance >= 0, monthly_contribution >= 0, annual_volatility >= 0 and
\* a whole number of years in 1..60, and run_simulation is called before
\* print_summary and plot_results.
C12_PromptsValidate ==
    /\ cli.returned.helper = "get_number" =>
           \/ cli.returned.value = cli.returned.default
           \/ WithinLimits(cli.returned.value, cli.returned.minimum,
                           cli.returned.maximum)
    /\ cli.returned.helper = "get_choice" =>
           /\ cli.returned.value.kind = "num"
           /\ cli.returned.value.v % 1000 = 0
           /\ cli.returned.value.v >= 0
           /\ cli.returned.value.v < cli.returned.maximum.v
    /\ ConstructorCalled =>
           /\ NonNegative(cli.locals.initial_balance)
           /\ NonNegative(cli.locals.monthly_contribution)
           /\ NonNegative(cli.locals.annual_volatility)
           /\ WithinLimits(cli.locals.years, Num(1), Num(60))
           /\ cli.locals.years.v % 1000 = 0
    /\ IsPrefix(cli.calls, <<"__init__", "run_simulation", "print_summary",
                             "plot_results">>)

-----------------------------------------------------------------------------
(* the "has run" state *)

HasCompletedRun == latest # None

BandsOrStatistics == {"get_percentiles", "get_statistics"}

\* C13: once a run_simulation call has completed, simulation_results is never
\* None again, every later call of get_percentiles or get_statistics succeeds
\* and reduces exactly the matrix that the run_simulation call completed last
\* returned; and a call of either that raised "Must run simulation first"
\* has left the instance without results.
C13_HasRunMonotone ==
    /\ HasCompletedRun => (HasResults /\ simulation_results = latest)
    /\ (HasCompletedRun /\ result.op \in BandsOrStatistics)
           => result.status = "ok"
    /\ (result.op \in BandsOrStatistics /\ result.status = "ok")
           => result.matrix = latest
    /\ (result.op \in BandsOrStatistics /\ result.status = "ValueError")
           => (~HasResults /\ ~HasCompletedRun)

====
